---- MODULE Spec2Model ----
(***************************************************************************)
(* The prompt-assembly / completion / normalisation pipelines of           *)
(* demos/llm_prompt_to_classify.py and demos/prompt_templates/*.py.        *)
(*                                                                         *)
(* One call at a time runs through the positions                           *)
(*   idle -> ASSEMBLING -> INVOKING -> NORMALIZING -> DONE -> idle.        *)
(* The completion endpoint is the environment: it raises or it answers.    *)
(*                                                                         *)
(* Encoding of Python values:                                              *)
(*   Optional[T]      None is <<>>, a present value v is <<v>>             *)
(*   subject text     a sequence of one-character strings                  *)
(*   prompt, message  a sequence of string pieces                          *)
(*   dict (result)    a function from key strings to values                *)
(*   ordered mapping  a sequence of <<key, record>> pairs                  *)
(***************************************************************************)
EXTENDS Integers, Sequences, FiniteSets, TLC

\* Longest subject text (in characters) the calls are given.
MaxLen == 2

None == <<>>
Some(v) == <<v>>

\* Characters str.strip() removes, and the alphabet of subject texts.
Whitespace == {" ", "\n"}
Chars == Whitespace \cup {"x"}

RECURSIVE lstrip(_)
lstrip(s) == IF s # <<>> /\ Head(s) \in Whitespace THEN lstrip(Tail(s)) ELSE s

RECURSIVE rstrip(_)
rstrip(s) ==
    IF s # <<>> /\ s[Len(s)] \in Whitespace
    THEN rstrip(SubSeq(s, 1, Len(s) - 1))
    ELSE s

\* str.strip()
strip(s) == rstrip(lstrip(s))

\* The validation of the subject text as a bug would write it: no strip().
IsBlankNoStrip(text) == text = <<>>

\* `not text.strip()`
IsBlank(text) == strip(text) = <<>>

\* Truth value of an Optional[str] (None and "" are falsy).
StrTruthy(o) == o # None /\ o[1] # ""

\* `api_key or os.getenv("OPENAI_API_KEY")`
ResolveApiKey(api_key, getenv) == IF StrTruthy(api_key) THEN api_key ELSE getenv

\* str(x) of an Optional[str] inside an f-string or str.format
Str(o) == IF o = None THEN "None" ELSE o[1]

Range(s) == {s[i] : i \in DOMAIN s}

RECURSIVE Flatten(_)
Flatten(ss) == IF ss = <<>> THEN <<>> ELSE Head(ss) \o Flatten(Tail(ss))

\* sep.join(items), each item a sequence of pieces
RECURSIVE Join(_, _)
Join(sep, items) ==
    IF items = <<>> THEN <<>>
    ELSE IF Len(items) = 1 THEN items[1]
    ELSE items[1] \o <<sep>> \o Join(sep, Tail(items))

\* list(mapping.keys())
Keys(mapping) == [i \in DOMAIN mapping |-> mapping[i][1]]

\* dict.update with the existing keys kept: a bug of the metadata merge.
updateKeepExisting(d, other) == d @@ other

\* d.update(other): the keys of `other` overwrite those of d.
update(d, other) == other @@ d

(***************************************************************************)
(* Taxonomy registries.                                                    *)
(***************************************************************************)
Entity(name, description, examples) ==
    [name |-> name, description |-> description, examples |-> examples]

ENTITY_TYPES_INIT ==
    << <<"company", Entity("company",
            Some("A company is a legal entity that is registered and has a unique identifier."),
            Some(<<"Apple Inc.", "Google LLC", "Microsoft Corporation">>))>>,
       <<"city", Entity("city",
            Some("A city is a large human settlement."),
            Some(<<"New York", "London", "Paris">>))>>,
       <<"organization", Entity("organization",
            Some("An organization is a group of people who share a common purpose."),
            Some(<<"United Nations", "World Health Organization", "Red Cross">>))>>,
       <<"business_unit", Entity("business_unit",
            Some("A business unit is a division of a company that is responsible for a specific function or product."),
            Some(<<"Sales", "Marketing", "Finance", "Engineering", "IT Support", "Accounting">>))>>,
       <<"person", Entity("person",
            Some("A person is a human being."),
            Some(<<"John Doe", "Jane Smith", "Bob Johnson">>))>>,
       <<"job_title", Entity("job_title",
            Some("A job title is a title given to a person who is employed by a company."),
            Some(<<"Software Engineer", "Product Manager", "Marketing Manager",
                   "Sales Manager", "Accountant", "IT Support", "Engineer">>))>> >>

ProductCategory(category_name, category_description) ==
    [category_name |-> category_name, category_description |-> category_description]

PRODUCT_CATEGORIES_INIT ==
    << <<"personal_electronics", ProductCategory("Personal Electronics",
            "Personal electronics products include laptops, smartphones, tablets, and other electronic devices.")>>,
       <<"home_electronics", ProductCategory("Home Electronics",
            "Home electronics products include smart home devices, smart speakers, smart lights, and other electronic devices.")>>,
       <<"office_electronics", ProductCategory("Office Electronics",
            "Office electronics products include printers, scanners, and other electronic devices.")>>,
       <<"gaming_electronics", ProductCategory("Gaming Electronics",
            "Gaming electronics products include gaming consoles, gaming accessories, and other electronic devices.")>>,
       <<"audio_electronics", ProductCategory("Audio Electronics",
            "Audio electronics products include headphones, speakers, and other audio devices.")>>,
       <<"clothing", ProductCategory("Clothing",
            "Clothing products include shirts, pants, shoes, and other clothing items.")>>,
       <<"home_and_garden", ProductCategory("Home and Garden",
            "Home and garden products include furniture, appliances, tools, and other items for the home and garden.")>>,
       <<"sports_and_outdoors", ProductCategory("Sports and Outdoors",
            "Sports and outdoors products include sports equipment, outdoor gear, and other items for sports and outdoor activities.")>>,
       <<"unclassified", ProductCategory("Unclassified",
            "Unclassified products include items that do not fit into any other category. This is a catch-all category for items that are not classified into any other category.")>> >>

WebsiteAction(action_name, action_description) ==
    [action_name |-> action_name, action_description |-> action_description]

WEBSITE_ACTIONS_INIT ==
    << <<"search", WebsiteAction("search", "Search for a product or service on the website.")>>,
       <<"return_product", WebsiteAction("return_product", "Return a product or service on the website.")>>,
       <<"add_to_cart", WebsiteAction("add_to_cart", "Add a product or service to the cart on the website.")>>,
       <<"checkout", WebsiteAction("checkout", "Checkout from the website.")>>,
       <<"add_payment_method", WebsiteAction("add_payment_method", "Add a payment method to the website.")>>,
       <<"sign_up_newsletter", WebsiteAction("sign_up_newsletter", "Sign up for the website's newsletter.")>> >>

(***************************************************************************)
(* Outcomes of a piece of code: a value, or an exception leaving it.       *)
(***************************************************************************)
NoException == [type |-> "none", msg |-> ""]
Exception(type, msg) == [type |-> type, msg |-> msg]
Return(v) == [raised |-> NoException, value |-> v]
Raise(type, msg) == [raised |-> Exception(type, msg), value |-> <<>>]

(***************************************************************************)
(* Prompt templates and str.format.  A template is a sequence of pieces;   *)
(* a piece that is a replacement field is one of Placeholders.             *)
(***************************************************************************)
Placeholders ==
    {"{entity_types}", "{text}", "{product_item_name}", "{product_description}",
     "{categories}", "{undefined_field}"}

ENTITY_EXTRACTION_PROMPT ==
    << "\nYou are an entity extraction expert. You are given a text and you need to extract the entities from the text.\n\nHere is a list of the entity types you can extract:\n",
       "{entity_types}",
       "\n\nThe text to extract entities from is:\n",
       "{text}",
       "\n\nReturn the entities in the following JSON format:\n{\"entities\": [{\"predicted_entity_type\": \"entity_type\", \"predicted_entity_name\": \"entity_name\", \"predicted_entity_description\": \"entity_description\"}]}\n" >>

CLASSIFY_PRODUCT_ITEMS_PROMPT ==
    << "\nYou are a product classification expert. You are given a list of product items and you need to classify them into the appropriate category.\nIf the product item is not classified into any other category, classify it into the \"unclassified\" category.\n\nReturn the classification in the following JSON format:\n{\"product_item_name\": \"product_item_name\", \"product_description\": \"product_description\", \"predicted_category\": \"category_name\", \"predicted_category_description\": \"category_description\"}\n\nThe product item name to classify is:\n",
       "{product_item_name}",
       "\n\nThe product description (if available) to classify is:\n",
       "{product_description}",
       "\n\nThe possible classification categories are:\n",
       "{categories}",
       "\n" >>

\* template.format(**kwargs): KeyError on a field that is not supplied.
format(template, kwargs) ==
    IF \E i \in DOMAIN template : template[i] \in Placeholders \ DOMAIN kwargs
    THEN Raise("KeyError", "'undefined_field'")
    ELSE Return(Flatten([i \in DOMAIN template |->
                IF template[i] \in DOMAIN kwargs
                THEN kwargs[template[i]]
                ELSE <<template[i]>>]))

(***************************************************************************)
(* State.                                                                  *)
(***************************************************************************)
VARIABLES
    pc,                 \* position of the current call
    fn,                 \* the function called
    args,               \* its arguments
    environ,            \* os.environ's OPENAI_API_KEY (Optional[str])
    product_items,      \* module global of classify_product_items (None: not defined)
    ENTITY_TYPES,       \* the registries (module globals)
    PRODUCT_CATEGORIES,
    WEBSITE_ACTIONS,
    sent,               \* requests this call made to the completion endpoint
    fault,              \* Optional: the exception the API call raised
    response,           \* Optional: the response the API call returned
    raised,             \* the exception the call raised to its caller
    result              \* the value the call returned

registries == <<ENTITY_TYPES, PRODUCT_CATEGORIES, WEBSITE_ACTIONS>>
environment == <<environ, product_items>>
vars == <<pc, fn, args, environ, product_items, ENTITY_TYPES, PRODUCT_CATEGORIES,
          WEBSITE_ACTIONS, sent, fault, response, raised, result>>

NoResult == <<>>

(***************************************************************************)
(* Error messages of the raise statements.                                 *)
(***************************************************************************)
ApiKeyRequired ==
    "OpenAI API key is required. Set OPENAI_API_KEY environment variable or pass api_key parameter"
EmptyInputMessages ==
    {"text_to_classify cannot be empty", "classification_categories cannot be empty",
     "text cannot be empty", "product_items cannot be empty"}

(***************************************************************************)
(* entity_extraction_prompt.assemble_ner_prompt                            *)
(***************************************************************************)
entity_description(entity, include_examples) ==
    <<"- ", entity.name, ": ", Str(entity.description)>>
    \o (IF include_examples /\ entity.examples # None /\ entity.examples[1] # <<>>
        THEN <<" Examples: ">>
             \o Join(", ", [i \in DOMAIN entity.examples[1] |-> <<entity.examples[1][i]>>])
        ELSE <<>>)

NerPrompt(text, types, prompt_template, include_examples, custom_instructions) ==
    LET entity_types_formatted ==
            [i \in DOMAIN types |-> entity_description(types[i][2], include_examples)]
        entity_types_text == Join("\n", entity_types_formatted)
        formatted_prompt ==
            format(prompt_template,
                   ("{entity_types}" :> entity_types_text) @@ ("{text}" :> text))
    IN  IF formatted_prompt.raised # NoException THEN formatted_prompt
        ELSE Return(formatted_prompt.value
                    \o (IF StrTruthy(custom_instructions)
                        THEN <<"\n\nAdditional Instructions:\n", custom_instructions[1]>>
                        ELSE <<>>))

(***************************************************************************)
(* The completion endpoint's answers and json.loads.                       *)
(***************************************************************************)
NotJson == "not json"
JsonArray == "[1, 2]"
JsonPlain == "{\"classification\": \"positive\", \"confidence\": 0.9}"
JsonWithError == "{\"classification\": \"positive\", \"error\": \"refused\"}"
JsonWithMetadataKeys ==
    "{\"classification\": \"positive\", \"input_text\": \"s\", \"available_categories\": [\"spoofed\"], \"model_used\": \"other-model\", \"tokens_used\": 7}"

Contents == {NotJson, JsonArray, JsonPlain, JsonWithError, JsonWithMetadataKeys}

JsonValue(kind, obj) == [kind |-> kind, obj |-> obj, msg |-> ""]

\* json.loads(content) on the texts above: the parsed value, or JSONDecodeError.
json_loads(content) ==
    CASE content = JsonArray -> JsonValue("array", <<1, 2>>)
      [] content = JsonPlain ->
            JsonValue("object", [classification |-> "positive", confidence |-> "0.9"])
      [] content = JsonWithError ->
            JsonValue("object", [classification |-> "positive", error |-> <<"refused">>])
      [] content = JsonWithMetadataKeys ->
            JsonValue("object",
                [classification |-> "positive",
                 input_text |-> <<"s">>,
                 available_categories |-> <<"spoofed">>,
                 model_used |-> "other-model",
                 tokens_used |-> Some(7)])
      [] OTHER ->
            [kind |-> "JSONDecodeError", obj |-> <<>>,
             msg |-> "Expecting value: line 1 column 1 (char 0)"]

\* `response.usage.total_tokens if response.usage else None`
tokens_used(r) ==
    IF r.usage # None THEN Some(r.usage[1].total_tokens) ELSE None

\* `X if entity_types else Y`: an empty mapping is falsy, like None.
DictTruthy(o) == o # None /\ o[1] # <<>>

assemble_ner_prompt(text, entity_types, prompt_template, include_examples, custom_instructions) ==
    IF IsBlank(text) THEN Raise("ValueError", "text cannot be empty")
    ELSE NerPrompt(text,
                   IF entity_types = None THEN ENTITY_TYPES ELSE entity_types[1],
                   prompt_template, include_examples, custom_instructions)

(***************************************************************************)
(* The request of client.chat.completions.create.                          *)
(***************************************************************************)
Message(role, content) == [role |-> role, content |-> content]

Request(model, messages, max_tokens) ==
    [model |-> model, messages |-> messages, temperature |-> "0.1",
     max_tokens |-> max_tokens, response_format |-> [type |-> "json_object"]]

(***************************************************************************)
(* llm_prompt_to_classify.classify_text_with_openai                        *)
(***************************************************************************)
DefaultSystemPrompt(classification_categories) ==
    <<"You are a text classification expert. Your task is to classify the given text into one of the following categories: ">>
    \o Join(", ", [i \in DOMAIN classification_categories |->
                        <<classification_categories[i]>>])
    \o <<".\n\nPlease respond with a JSON object containing:\n- \"classification\": the chosen category\n- \"confidence\": a confidence score between 0 and 1\n- \"reasoning\": a brief explanation of why this classification was chosen\n- \"alternative_categories\": list of other categories that could apply (if any)\n\nExample response format:\n{\n    \"classification\": \"category_name\",\n    \"confidence\": 0.85,\n    \"reasoning\": \"Brief explanation of the classification decision\",\n    \"alternative_categories\": [\"other_category1\", \"other_category2\"]\n}">>

\* Lines 37-86: validation, credential, messages; the request, or the raise.
classify_request(a, getenv) ==
    IF IsBlank(a.text) THEN Raise("ValueError", "text_to_classify cannot be empty")
    ELSE IF a.categories = <<>>
    THEN Raise("ValueError", "classification_categories cannot be empty")
    ELSE IF ~StrTruthy(ResolveApiKey(a.api_key, getenv))
    THEN Raise("ValueError", ApiKeyRequired)
    ELSE LET system_prompt ==
                 IF a.system_prompt = None
                 THEN DefaultSystemPrompt(a.categories)
                 ELSE <<a.system_prompt[1]>>
             user_message == <<"Please classify the following text:\n\n">> \o a.text
         IN  Return(Request(a.model,
                            <<Message("system", system_prompt),
                              Message("user", user_message)>>,
                            1000))

\* Lines 119-133: the except clauses around the API call.
classify_except(a, e) ==
    IF e.type = "OpenAIError"
    THEN [error |-> <<"OpenAI API error: ", e.msg>>,
          input_text |-> a.text,
          available_categories |-> a.categories]
    ELSE [error |-> <<"Unexpected error: ", e.msg>>,
          input_text |-> a.text,
          available_categories |-> a.categories]

\* Lines 88-117: the code of the try block after the API call returned.
classify_normalize(a, r) ==
    IF r.choices = <<>>
    THEN classify_except(a, Exception("IndexError", "list index out of range"))
    ELSE LET response_content == r.choices[1] IN
         IF response_content = None
         THEN classify_except(a, Exception("TypeError",
                "the JSON object must be str, bytes or bytearray, not NoneType"))
         ELSE LET parsed == json_loads(response_content[1]) IN
              IF parsed.kind = "JSONDecodeError"
              THEN [error |-> <<"Failed to parse JSON response from OpenAI">>,
                    raw_response |-> response_content[1],
                    json_error |-> parsed.msg,
                    input_text |-> a.text,
                    available_categories |-> a.categories]
              ELSE IF parsed.kind # "object"
              THEN classify_except(a, Exception("AttributeError",
                        "'list' object has no attribute 'update'"))
              ELSE update(parsed.obj,
                          [input_text |-> a.text,
                           available_categories |-> a.categories,
                           model_used |-> a.model,
                           tokens_used |-> tokens_used(r)])

(***************************************************************************)
(* entity_extraction_prompt.extract_entities_with_openai                   *)
(***************************************************************************)
\* `list(entity_types.keys()) if entity_types else list(ENTITY_TYPES.keys())`
entity_types_used(entity_types) ==
    IF DictTruthy(entity_types) THEN Keys(entity_types[1]) ELSE Keys(ENTITY_TYPES)

\* Lines 170-201: validation, credential, prompt; the request, or the raise.
extract_request(a, getenv) ==
    IF IsBlank(a.text) THEN Raise("ValueError", "text cannot be empty")
    ELSE IF ~StrTruthy(ResolveApiKey(a.api_key, getenv))
    THEN Raise("ValueError", ApiKeyRequired)
    ELSE LET assembled_prompt ==
                 assemble_ner_prompt(a.text, a.entity_types, a.prompt_template,
                                     a.include_examples, a.custom_instructions)
         IN  IF assembled_prompt.raised # NoException THEN assembled_prompt
             ELSE Return(Request(a.model,
                                 <<Message("user", assembled_prompt.value)>>,
                                 2000))

\* Lines 231-247
extract_except(a, e) ==
    IF e.type = "OpenAIError"
    THEN [error |-> <<"OpenAI API error: ", e.msg>>,
          input_text |-> a.text,
          entity_types_used |-> entity_types_used(a.entity_types)]
    ELSE [error |-> <<"Unexpected error: ", e.msg>>,
          input_text |-> a.text,
          entity_types_used |-> entity_types_used(a.entity_types)]

\* Lines 203-229
extract_normalize(a, r) ==
    IF r.choices = <<>>
    THEN extract_except(a, Exception("IndexError", "list index out of range"))
    ELSE LET response_content == r.choices[1] IN
         IF response_content = None
         THEN extract_except(a, Exception("TypeError",
                "the JSON object must be str, bytes or bytearray, not NoneType"))
         ELSE LET parsed_json == json_loads(response_content[1]) IN
              IF parsed_json.kind = "JSONDecodeError"
              THEN [error |-> <<"Failed to parse JSON response from OpenAI">>,
                    raw_response |-> response_content[1],
                    json_error |-> parsed_json.msg,
                    input_text |-> a.text,
                    entity_types_used |-> entity_types_used(a.entity_types)]
              ELSE [extracted_entities |-> parsed_json,
                    input_text |-> a.text,
                    entity_types_used |-> entity_types_used(a.entity_types),
                    model_used |-> a.model,
                    tokens_used |-> tokens_used(r)]

(***************************************************************************)
(* classify_product_items.generate_product_classification_text             *)
(***************************************************************************)
\* Lines 100-140.  `product_items` is not a parameter: the name resolves to the
\* module global, which exists only when the module runs as __main__.
product_request(a, getenv) ==
    IF product_items = None
    THEN Raise("NameError", "name 'product_items' is not defined")
    ELSE IF product_items[1] = <<>>
    THEN Raise("ValueError", "product_items cannot be empty")
    ELSE IF ~StrTruthy(ResolveApiKey(a.api_key, getenv))
    THEN Raise("ValueError", ApiKeyRequired)
    ELSE LET categories_text ==
                 Join("\n", [i \in DOMAIN PRODUCT_CATEGORIES |->
                     <<"- ", PRODUCT_CATEGORIES[i][1], ": ",
                       PRODUCT_CATEGORIES[i][2].category_name, " - ",
                       PRODUCT_CATEGORIES[i][2].category_description>>])
             formatted_prompt ==
                 format(a.prompt_template,
                        ("{product_item_name}" :> a.text)
                        @@ ("{product_description}" :> <<Str(a.product_description)>>)
                        @@ ("{categories}" :> categories_text))
         IN  IF formatted_prompt.raised # NoException THEN formatted_prompt
             ELSE Return(Request(a.model,
                                 <<Message("user", formatted_prompt.value)>>,
                                 2000))

\* Lines 169-183
product_except(a, e) ==
    IF e.type = "OpenAIError"
    THEN [error |-> <<"OpenAI API error: ", e.msg>>,
          product_item_name |-> a.text,
          product_description |-> a.product_description,
          categories_used |-> Keys(PRODUCT_CATEGORIES)]
    ELSE [error |-> <<"Unexpected error: ", e.msg>>,
          product_item_name |-> a.text,
          product_description |-> a.product_description,
          categories_used |-> Keys(PRODUCT_CATEGORIES)]

\* Lines 142-167
product_normalize(a, r) ==
    IF r.choices = <<>>
    THEN product_except(a, Exception("IndexError", "list index out of range"))
    ELSE LET response_content == r.choices[1] IN
         IF response_content = None
         THEN product_except(a, Exception("TypeError",
                "the JSON object must be str, bytes or bytearray, not NoneType"))
         ELSE LET parsed_json == json_loads(response_content[1]) IN
              IF parsed_json.kind = "JSONDecodeError"
              THEN [generated_text |-> response_content[1],
                    json_parse_error |-> parsed_json.msg,
                    product_item_name |-> a.text,
                    product_description |-> a.product_description,
                    categories_used |-> Keys(PRODUCT_CATEGORIES),
                    model_used |-> a.model,
                    tokens_used |-> tokens_used(r)]
              ELSE [parsed_json |-> parsed_json,
                    product_item_name |-> a.text,
                    product_description |-> a.product_description,
                    categories_used |-> Keys(PRODUCT_CATEGORIES),
                    model_used |-> a.model,
                    tokens_used |-> tokens_used(r)]

(***************************************************************************)
(* Inputs of the calls and answers of the endpoint.                        *)
(***************************************************************************)
Texts == UNION {[1..n -> Chars] : n \in 0..MaxLen}
Models == {"gpt-3.5-turbo", "gpt-4o"}
ApiKeys == {None, Some(""), Some("sk-param")}
EnvKeys == {None, Some("sk-env")}
CategoryLists == {<<>>, <<"positive", "negative", "neutral">>}
SystemPrompts ==
    {None, Some("You are a customer service classifier. Analyze the customer's message and categorize it appropriately.")}
CustomEntityTypes ==
    << <<"product", Entity("product", None, None)>>,
       <<"brand", Entity("brand name", Some("A brand is a name under which products are sold."),
                         Some(<<"Nike", "Sony">>))>> >>
EntityTypeArgs == {None, Some(<<>>), Some(CustomEntityTypes)}
NerTemplates ==
    {ENTITY_EXTRACTION_PROMPT,
     <<"Entity types:\n", "{entity_types}", "\nHints:\n", "{undefined_field}", "\nText:\n", "{text}">>}
ProductTemplates ==
    {CLASSIFY_PRODUCT_ITEMS_PROMPT,
     <<"Item: ", "{product_item_name}", "\nHints:\n", "{undefined_field}", "\nCategories:\n", "{categories}">>}
CustomInstructions ==
    {None, Some("Only extract entities that are explicitly mentioned.")}
ProductDescriptions == {None, Some("A smartphone")}

\* The list the __main__ block of classify_product_items binds to product_items.
MainProductItems ==
    <<"iPhone 15 Pro", "Sony WH-1000XM5 headphones", "Nike Air Max running shoes",
      "Samsung Smart TV", "Gaming mouse with RGB lighting", "childrens play set">>

\* What client.chat.completions.create can raise, and what it can return.
EndpointFaults ==
    {Exception("OpenAIError", "Rate limit reached"),
     Exception("Exception", "connection reset")}
Usages == {None, Some([total_tokens |-> 42])}
Responses ==
    {[choices |-> <<>>, usage |-> None]}
    \cup {[choices |-> <<c>>, usage |-> u] :
            c \in {None} \cup {Some(t) : t \in Contents}, u \in Usages}

NoArgs ==
    [text |-> <<>>, categories |-> <<>>, system_prompt |-> None,
     entity_types |-> None, prompt_template |-> <<>>, include_examples |-> TRUE,
     custom_instructions |-> None, product_description |-> None,
     model |-> "gpt-3.5-turbo", api_key |-> None]

(***************************************************************************)
(* Init: the process has started; no call is running.  The module of       *)
(* classify_product_items was either imported (product_items undefined) or *)
(* run as __main__ (product_items bound to its sample list).               *)
(***************************************************************************)
Init ==
    /\ pc = "idle"
    /\ fn = "none"
    /\ args = NoArgs
    /\ environ \in EnvKeys
    /\ product_items \in {None, Some(MainProductItems)}
    /\ ENTITY_TYPES = ENTITY_TYPES_INIT
    /\ PRODUCT_CATEGORIES = PRODUCT_CATEGORIES_INIT
    /\ WEBSITE_ACTIONS = WEBSITE_ACTIONS_INIT
    /\ sent = <<>>
    /\ fault = None
    /\ response = None
    /\ raised = NoException
    /\ result = NoResult

\* A caller enters function f with arguments a.
Enter(f, a) ==
    /\ pc = "idle"
    /\ pc' = "ASSEMBLING"
    /\ fn' = f
    /\ args' = a
    /\ UNCHANGED <<environment, registries, sent, fault, response, raised, result>>

call_classify_text_with_openai ==
    \E t \in Texts, c \in CategoryLists, sp \in SystemPrompts, m \in Models,
       k \in ApiKeys :
        Enter("classify_text_with_openai",
              [NoArgs EXCEPT !.text = t, !.categories = c, !.system_prompt = sp,
                             !.model = m, !.api_key = k])

call_assemble_ner_prompt ==
    \E t \in Texts, et \in EntityTypeArgs, pt \in NerTemplates, ie \in BOOLEAN,
       ci \in CustomInstructions :
        Enter("assemble_ner_prompt",
              [NoArgs EXCEPT !.text = t, !.entity_types = et, !.prompt_template = pt,
                             !.include_examples = ie, !.custom_instructions = ci])

call_extract_entities_with_openai ==
    \E t \in Texts, et \in EntityTypeArgs, pt \in NerTemplates, ie \in BOOLEAN,
       ci \in CustomInstructions, m \in Models, k \in ApiKeys :
        Enter("extract_entities_with_openai",
              [NoArgs EXCEPT !.text = t, !.entity_types = et, !.prompt_template = pt,
                             !.include_examples = ie, !.custom_instructions = ci,
                             !.model = m, !.api_key = k])

call_generate_product_classification_text ==
    \E t \in Texts, pd \in ProductDescriptions, pt \in ProductTemplates,
       m \in Models, k \in ApiKeys :
        Enter("generate_product_classification_text",
              [NoArgs EXCEPT !.text = t, !.product_description = pd,
                             !.prompt_template = pt, !.model = m, !.api_key = k])

(***************************************************************************)
(* The steps of a call.                                                    *)
(***************************************************************************)
\* The code before the API call: it raises to the caller, or it dispatches
\* the one request.
Dispatch(f, pre) ==
    /\ pc = "ASSEMBLING"
    /\ fn = f
    /\ IF pre.raised # NoException
       THEN /\ raised' = pre.raised
            /\ pc' = "DONE"
            /\ UNCHANGED sent
       ELSE /\ sent' = Append(sent, pre.value)
            /\ pc' = "INVOKING"
            /\ UNCHANGED raised
    /\ UNCHANGED <<fn, args, environment, registries, fault, response, result>>

\* The API call raises, and the call sends the request again: a retrying bug.
CaughtWithRetry(f, e, d) ==
    /\ pc = "INVOKING"
    /\ fn = f
    /\ fault' = Some(e)
    /\ IF Len(sent) < 2
       THEN /\ sent' = Append(sent, sent[1])
            /\ UNCHANGED <<pc, result>>
       ELSE /\ result' = d
            /\ pc' = "DONE"
            /\ UNCHANGED sent
    /\ UNCHANGED <<fn, args, environment, registries, response, raised>>

\* The API call raises e; an except clause returns the dict d.
Caught(f, e, d) ==
    /\ pc = "INVOKING"
    /\ fn = f
    /\ fault' = Some(e)
    /\ result' = d
    /\ pc' = "DONE"
    /\ UNCHANGED <<fn, args, environment, registries, sent, response, raised>>

\* The API call returns r.
Answered(f, r) ==
    /\ pc = "INVOKING"
    /\ fn = f
    /\ response' = Some(r)
    /\ pc' = "NORMALIZING"
    /\ UNCHANGED <<fn, args, environment, registries, sent, fault, raised, result>>

\* The rest of the try block returns the dict d.
Normalized(f, d) ==
    /\ pc = "NORMALIZING"
    /\ fn = f
    /\ result' = d
    /\ pc' = "DONE"
    /\ UNCHANGED <<fn, args, environment, registries, sent, fault, response, raised>>

classify_dispatch ==
    Dispatch("classify_text_with_openai", classify_request(args, environ))
classify_create_raises ==
    \E e \in EndpointFaults :
        Caught("classify_text_with_openai", e, classify_except(args, e))
classify_create_returns ==
    \E r \in Responses : Answered("classify_text_with_openai", r)
\* classify_parse without the except clauses: the failure leaves the call.
classify_parse_raises ==
    /\ pc = "NORMALIZING"
    /\ fn = "classify_text_with_openai"
    /\ LET d == classify_normalize(args, response[1]) IN
       IF "error" \in DOMAIN d /\ "classification" \notin DOMAIN d
       THEN raised' = Exception("JSONDecodeError", "Expecting value") /\ UNCHANGED result
       ELSE result' = d /\ UNCHANGED raised
    /\ pc' = "DONE"
    /\ UNCHANGED <<fn, args, environment, registries, sent, fault, response>>

classify_parse ==
    Normalized("classify_text_with_openai", classify_normalize(args, response[1]))

\* ner_assemble keeping the caller's entity types in the module's registry.
ner_assemble_registers ==
    /\ pc = "ASSEMBLING"
    /\ fn = "assemble_ner_prompt"
    /\ LET out == assemble_ner_prompt(args.text, args.entity_types, args.prompt_template,
                                      args.include_examples, args.custom_instructions)
       IN  /\ raised' = out.raised
           /\ result' = out.value
    /\ ENTITY_TYPES' =
          (IF args.entity_types = None THEN ENTITY_TYPES
           ELSE ENTITY_TYPES \o args.entity_types[1])
    /\ pc' = "DONE"
    /\ UNCHANGED <<fn, args, environment, PRODUCT_CATEGORIES, WEBSITE_ACTIONS,
                   sent, fault, response>>

\* assemble_ner_prompt called on its own: it returns the prompt or raises.
ner_assemble ==
    /\ pc = "ASSEMBLING"
    /\ fn = "assemble_ner_prompt"
    /\ LET out == assemble_ner_prompt(args.text, args.entity_types, args.prompt_template,
                                      args.include_examples, args.custom_instructions)
       IN  /\ raised' = out.raised
           /\ result' = out.value
    /\ pc' = "DONE"
    /\ UNCHANGED <<fn, args, environment, registries, sent, fault, response>>

extract_dispatch ==
    Dispatch("extract_entities_with_openai", extract_request(args, environ))
\* extract_create_raises with a retry of the request.
extract_create_raises_retry ==
    \E e \in EndpointFaults :
        CaughtWithRetry("extract_entities_with_openai", e, extract_except(args, e))
extract_create_raises ==
    \E e \in EndpointFaults :
        Caught("extract_entities_with_openai", e, extract_except(args, e))
extract_create_returns ==
    \E r \in Responses : Answered("extract_entities_with_openai", r)
extract_parse ==
    Normalized("extract_entities_with_openai", extract_normalize(args, response[1]))

product_dispatch ==
    Dispatch("generate_product_classification_text", product_request(args, environ))
product_create_raises ==
    \E e \in EndpointFaults :
        Caught("generate_product_classification_text", e, product_except(args, e))
product_create_returns ==
    \E r \in Responses : Answered("generate_product_classification_text", r)
product_parse ==
    Normalized("generate_product_classification_text",
               product_normalize(args, response[1]))

\* The caller has the outcome; the next call may begin.
Finish ==
    /\ pc = "DONE"
    /\ pc' = "idle"
    /\ fn' = "none"
    /\ args' = NoArgs
    /\ sent' = <<>>
    /\ fault' = None
    /\ response' = None
    /\ raised' = NoException
    /\ result' = NoResult
    /\ UNCHANGED <<environment, registries>>

Next ==
    \/ call_classify_text_with_openai
    \/ call_assemble_ner_prompt
    \/ call_extract_entities_with_openai
    \/ call_generate_product_classification_text
    \/ classify_dispatch
    \/ classify_create_raises
    \/ classify_create_returns
    \/ classify_parse
    \/ ner_assemble
    \/ extract_dispatch
    \/ extract_create_raises
    \/ extract_create_returns
    \/ extract_parse
    \/ product_dispatch
    \/ product_create_raises
    \/ product_create_returns
    \/ product_parse
    \/ Finish

Spec == Init /\ [][Next]_vars

\* One step of a running call: its own code, or the endpoint raising or returning.
Step ==
    \/ classify_dispatch
    \/ classify_create_raises
    \/ classify_create_returns
    \/ classify_parse
    \/ ner_assemble
    \/ extract_dispatch
    \/ extract_create_raises
    \/ extract_create_returns
    \/ extract_parse
    \/ product_dispatch
    \/ product_create_raises
    \/ product_create_returns
    \/ product_parse

(***************************************************************************)
(* Vocabulary of the properties.                                           *)
(***************************************************************************)
InvokingFunctions ==
    {"classify_text_with_openai", "extract_entities_with_openai",
     "generate_product_classification_text"}

Done == pc = "DONE"
Requests == Len(sent)
Has(k) == k \in DOMAIN result

\* Empty or consisting only of whitespace.
OnlyWhitespace(t) == \A i \in DOMAIN t : t[i] \in Whitespace

ValidationError(e) == e.type = "ValueError" /\ e.msg \in EmptyInputMessages
ConfigurationError(e) == e.type = "ValueError" /\ e.msg = ApiKeyRequired

Absent(o) == o \in {None, Some("")}

\* The caller supplied an empty taxonomy.
EmptyTaxonomy ==
    \/ fn = "classify_text_with_openai" /\ args.categories = <<>>
    \/ /\ fn \in {"assemble_ner_prompt", "extract_entities_with_openai"}
       /\ args.entity_types = Some(<<>>)

\* The replacement fields each function supplies to str.format.
SuppliedFields ==
    IF fn = "generate_product_classification_text"
    THEN {"{product_item_name}", "{product_description}", "{categories}"}
    ELSE {"{entity_types}", "{text}"}

\* The prompt template can be formatted (classify_text_with_openai has none).
PromptFormats ==
    \/ fn = "classify_text_with_openai"
    \/ \A i \in DOMAIN args.prompt_template :
          args.prompt_template[i] \in Placeholders
              => args.prompt_template[i] \in SuppliedFields

\* Subject text and taxonomy are non-empty and the template is well-formed.
ValidInputs ==
    /\ ~OnlyWhitespace(args.text)
    /\ ~EmptyTaxonomy
    /\ PromptFormats

\* The taxonomy rendered into (or listed in) the prompt, as its keys.
TaxonomyUsed ==
    CASE fn = "classify_text_with_openai" -> args.categories
      [] fn = "extract_entities_with_openai" ->
            Keys(IF args.entity_types = None THEN ENTITY_TYPES ELSE args.entity_types[1])
      [] fn = "generate_product_classification_text" -> Keys(PRODUCT_CATEGORIES)

TaxonomyKey ==
    CASE fn = "classify_text_with_openai" -> "available_categories"
      [] fn = "extract_entities_with_openai" -> "entity_types_used"
      [] fn = "generate_product_classification_text" -> "categories_used"

HasInput ==
    IF fn = "generate_product_classification_text"
    THEN Has("product_item_name") /\ Has("product_description")
    ELSE Has("input_text")

EchoesInput ==
    /\ HasInput
    /\ IF fn = "generate_product_classification_text"
       THEN /\ result.product_item_name = args.text
            /\ result.product_description = args.product_description
       ELSE result.input_text = args.text

EchoesTaxonomy == Has(TaxonomyKey) /\ result[TaxonomyKey] = TaxonomyUsed

\* The API call returned a response whose first choice has text content.
HasContent ==
    /\ response # None
    /\ response[1].choices # <<>>
    /\ response[1].choices[1] # None
Content == response[1].choices[1][1]

ParseFailed == HasContent /\ json_loads(Content).kind = "JSONDecodeError"
ParsedObject == HasContent /\ json_loads(Content).kind = "object"

MetadataKeys == {"input_text", "available_categories", "model_used", "tokens_used"}

\* The code's "Validate inputs" block completed without raising.
ValidationPassed ==
    CASE fn = "classify_text_with_openai" ->
            ~OnlyWhitespace(args.text) /\ args.categories # <<>>
      [] fn = "extract_entities_with_openai" -> ~OnlyWhitespace(args.text)
      [] fn = "generate_product_classification_text" ->
            product_items # None /\ product_items[1] # <<>>
      [] OTHER -> FALSE

\* The code's "Get API key" block completed without raising.
CredentialResolved == ~Absent(args.api_key) \/ ~Absent(environ)

(***************************************************************************)
(* Properties.                                                             *)
(***************************************************************************)

\* C1: a call of classify_text_with_openai, assemble_ner_prompt or
\* extract_entities_with_openai whose subject text is empty or only whitespace
\* raises a validation error, returns nothing and never sends a request to the
\* completion endpoint, whatever the other arguments and the credential.
C1_BlankTextRejected ==
    (/\ fn \in {"classify_text_with_openai", "assemble_ner_prompt",
                "extract_entities_with_openai"}
     /\ OnlyWhitespace(args.text))
    => /\ Requests = 0
       /\ pc \in {"ASSEMBLING", "DONE"}
       /\ Done => (ValidationError(raised) /\ DOMAIN result = {})

\* A whitespace-only text given with a valid credential has been rejected.
C1_Witness ==
    /\ Done
    /\ fn = "extract_entities_with_openai"
    /\ args.text = <<" ", "\n">>
    /\ args.api_key = Some("sk-param")
    /\ ValidationError(raised)
    /\ Requests = 0

\* C2: with non-blank subject text, an empty taxonomy (an empty
\* classification_categories list, an empty entity_types mapping) makes the call
\* fail with a validation error: no prompt is returned, no request is sent.
C2_EmptyTaxonomyRejected ==
    (~OnlyWhitespace(args.text) /\ EmptyTaxonomy)
    => /\ Requests = 0
       /\ Done => (ValidationError(raised) /\ DOMAIN result = {})

\* C3: in each of the three invoking functions, with otherwise valid inputs, a
\* call without api_key and without OPENAI_API_KEY raises a configuration error
\* and sends no request.
C3_MissingCredentialRejected ==
    (/\ Done
     /\ fn \in InvokingFunctions
     /\ ValidInputs
     /\ Absent(args.api_key)
     /\ Absent(environ))
    => (ConfigurationError(raised) /\ Requests = 0)

\* C4: when the API call raises an endpoint-level fault (openai.OpenAIError),
\* the invoking call returns a result with an `error` describing the endpoint
\* failure, without `raw_response` and `tokens_used`, that echoes the input and
\* the taxonomy used.
C4_EndpointFaultResult ==
    (/\ Done
     /\ fn \in InvokingFunctions
     /\ fault # None
     /\ fault[1].type = "OpenAIError")
    => /\ raised = NoException
       /\ Has("error")
       /\ result.error = <<"OpenAI API error: ", fault[1].msg>>
       /\ ~Has("raw_response")
       /\ ~Has("tokens_used")
       /\ EchoesInput
       /\ EchoesTaxonomy

\* C5: when the endpoint returns text that is not valid JSON, the invoking call
\* returns a result with an `error` field, with `raw_response` equal to that
\* text, and with the metadata fields of the success variant (input echo,
\* taxonomy-used list, model used, token count) all present.
C5_ParseFailureResult ==
    (Done /\ fn \in InvokingFunctions /\ ParseFailed)
    => /\ raised = NoException
       /\ Has("error")
       /\ Has("raw_response")
       /\ result.raw_response = Content
       /\ HasInput
       /\ Has(TaxonomyKey)
       /\ Has("model_used")
       /\ Has("tokens_used")

\* C6: when the endpoint returns a valid JSON object O, the result of
\* classify_text_with_openai has exactly the keys of O and the four metadata
\* keys; a key of O that is no metadata key keeps O's value; each metadata key
\* holds the request's value (tokens_used: the reported total_tokens, None
\* without usage), also when O has a key of the same name.
C6_SuccessMerge ==
    (Done /\ fn = "classify_text_with_openai" /\ ParsedObject)
    => LET O == json_loads(Content).obj IN
       /\ raised = NoException
       /\ DOMAIN result = DOMAIN O \cup MetadataKeys
       /\ \A k \in DOMAIN O \ MetadataKeys : result[k] = O[k]
       /\ result.input_text = args.text
       /\ result.available_categories = args.categories
       /\ result.model_used = args.model
       /\ result.tokens_used =
            (IF response[1].usage = None THEN None
             ELSE Some(response[1].usage[1].total_tokens))

\* The endpoint's object carried all four metadata keys and usage was reported.
C6_Witness ==
    /\ Done
    /\ fn = "classify_text_with_openai"
    /\ ParsedObject
    /\ Content = JsonWithMetadataKeys
    /\ response[1].usage # None
    /\ result.tokens_used = Some(42)
    /\ result.classification = "positive"

\* C7: a result of classify_text_with_openai carries `error` if and only if the
\* call failed (endpoint fault, parse failure, unexpected error); a result made
\* from a parsed JSON object never carries `error`, whatever keys the object has.
C7_ErrorIffFailed ==
    (Done /\ fn = "classify_text_with_openai" /\ raised = NoException)
    => (Has("error") <=> ~ParsedObject)

\* C8: every result an invoking call returns, on every path, contains the
\* echoed input, the taxonomy used and the model identifier of the request.
C8_ResultTraceable ==
    (Done /\ fn \in InvokingFunctions /\ raised = NoException)
    => /\ EchoesInput
       /\ EchoesTaxonomy
       /\ Has("model_used")
       /\ result.model_used = args.model

\* C9: once an invoking call has dispatched its request it never raises: for
\* every outcome of the endpoint it returns a result, and the result carries
\* `error` whenever the outcome is not a parsed JSON object.
C9_FailuresAbsorbed ==
    (Done /\ fn \in InvokingFunctions /\ sent # <<>>)
    => /\ raised = NoException
       /\ ~ParsedObject => Has("error")

\* C10 as stated: an invoking call sends exactly one request when input
\* validation and credential resolution succeed, and none otherwise.
C10_OneRequestIffValidated ==
    /\ Requests <= 1
    /\ (fn \in InvokingFunctions /\ pc \in {"INVOKING", "NORMALIZING", "DONE"})
       => Requests = (IF ValidationPassed /\ CredentialResolved THEN 1 ELSE 0)

\* C10, amended: an invoking call sends at most one request: exactly one when
\* input validation, credential resolution and the formatting of the prompt
\* template succeed, none otherwise; no outcome of the request causes a second.
C10_OneRequest ==
    /\ Requests <= 1
    /\ (fn \in InvokingFunctions /\ pc \in {"INVOKING", "NORMALIZING", "DONE"})
       => Requests = (IF ValidationPassed /\ CredentialResolved /\ PromptFormats
                      THEN 1 ELSE 0)

\* The one request met an endpoint fault and the call ended without another.
C10_Witness ==
    /\ Done
    /\ fn = "extract_entities_with_openai"
    /\ fault # None
    /\ Requests = 1

\* The moves between the positions of a call.
Order ==
    {<<"idle", "ASSEMBLING">>, <<"ASSEMBLING", "INVOKING">>,
     <<"INVOKING", "NORMALIZING">>, <<"NORMALIZING", "DONE">>,
     <<"ASSEMBLING", "DONE">>, <<"INVOKING", "DONE">>, <<"DONE", "idle">>}

\* A step moves the call forwards.
OrderedMove == <<pc, pc'>> \in Order

\* The call's arguments or environment make the code before the API call fail.
AssemblingFailed ==
    IF fn \in InvokingFunctions
    THEN ~(ValidationPassed /\ CredentialResolved /\ PromptFormats)
    ELSE fn = "assemble_ner_prompt" /\ (OnlyWhitespace(args.text) \/ ~PromptFormats)

\* The API call raised.
InvokingFailed == fault # None

\* The code after the API call met an exception (no first choice, no content,
\* text that json.loads rejects, a value result.update cannot be called on).
NormalizingFailed ==
    /\ response # None
    /\ IF fn = "classify_text_with_openai"
       THEN ~ParsedObject
       ELSE ~HasContent \/ ParseFailed

C11_FailureOutcome ==
    /\ (Done /\ AssemblingFailed)
       => (raised # NoException /\ DOMAIN result = {})
    /\ raised # NoException
       => (Done /\ AssemblingFailed /\ sent = <<>> /\ fault = None /\ response = None)
    /\ InvokingFailed
       => (Done /\ response = None /\ raised = NoException /\ Has("error"))
    /\ (Done /\ NormalizingFailed)
       => /\ raised = NoException
          /\ IF fn = "generate_product_classification_text" /\ ParseFailed
             THEN Has("json_parse_error")
             ELSE Has("error")

\* A running call that is not DONE can take a step.  The code before the API
\* call is straight-line (the only guard of its step is the function running);
\* after it, the API call returns or raises and the normalising code runs.
C11_Progress ==
    /\ pc = "ASSEMBLING" => fn \in InvokingFunctions \cup {"assemble_ner_prompt"}
    /\ pc \in {"INVOKING", "NORMALIZING"} => ENABLED Step

PromptPieces ==
    IF fn = "assemble_ner_prompt"
    THEN Range(result)
    ELSE UNION {Range(sent[1].messages[j].content) : j \in DOMAIN sent[1].messages}

\* A prompt exists: a request was dispatched, or assemble_ner_prompt returned.
PromptAssembled ==
    \/ fn \in InvokingFunctions /\ sent # <<>>
    \/ fn = "assemble_ner_prompt" /\ Done /\ raised = NoException

\* The display names and descriptions of the taxonomy of the call.
TaxonomyTexts ==
    CASE fn = "classify_text_with_openai" -> Range(args.categories)
      [] fn \in {"assemble_ner_prompt", "extract_entities_with_openai"} ->
            LET types == IF args.entity_types = None THEN ENTITY_TYPES
                         ELSE args.entity_types[1]
            IN  {types[i][2].name : i \in DOMAIN types}
                \cup {types[i][2].description[1] :
                        i \in {j \in DOMAIN types : types[j][2].description # None}}
      [] fn = "generate_product_classification_text" ->
            {PRODUCT_CATEGORIES[i][2].category_name : i \in DOMAIN PRODUCT_CATEGORIES}
            \cup {PRODUCT_CATEGORIES[i][2].category_description :
                    i \in DOMAIN PRODUCT_CATEGORIES}

\* C12: for non-blank subject text and a non-empty taxonomy, the prompt (the
\* messages of classify_text_with_openai for any system_prompt, the string of
\* assemble_ner_prompt for any include_examples, the formatted prompt of
\* generate_product_classification_text) contains the display name and the
\* description of every taxonomy entry.
C12_PromptContainsTaxonomy ==
    (PromptAssembled /\ ~OnlyWhitespace(args.text) /\ ~EmptyTaxonomy)
    => TaxonomyTexts \subseteq PromptPieces

\* The registries are the mappings the modules define.
C13_RegistriesUnchanged ==
    /\ ENTITY_TYPES = ENTITY_TYPES_INIT
    /\ PRODUCT_CATEGORIES = PRODUCT_CATEGORIES_INIT
    /\ WEBSITE_ACTIONS = WEBSITE_ACTIONS_INIT

\* Between two calls nothing of the earlier call is left: the state is a state
\* of the freshly started process.
C13_NothingRetained == pc = "idle" => Init

\* C13: after any sequence of calls, with any inputs and endpoint outcomes, the
\* registries ENTITY_TYPES, PRODUCT_CATEGORIES, WEBSITE_ACTIONS are unchanged,
\* and a call's outcome depends only on its arguments, the credential
\* environment and the endpoint's response: no step changes the environment,
\* and every call starts from a state of the freshly started process.
C13_NoCrossCallState ==
    /\ []C13_RegistriesUnchanged
    /\ []C13_NothingRetained
    /\ [][UNCHANGED <<environment, registries>>]_vars

\* Calls given their own entity types have run and ended; ENTITY_TYPES is as
\* defined.
C13_Witness ==
    /\ Done
    /\ fn \in {"assemble_ner_prompt", "extract_entities_with_openai"}
    /\ args.entity_types = Some(CustomEntityTypes)
    /\ raised = NoException
    /\ ENTITY_TYPES = ENTITY_TYPES_INIT

\* The sequence t occurs in the sequence s.
Occurs(t, s) ==
    \E i \in 0..(Len(s) - Len(t)) : SubSeq(s, i + 1, i + Len(t)) = t

\* C14: generate_product_classification_text called with no global defined by
\* a caller, with a credential and the default template, raises a validation
\* error and sends nothing when product_item_name is empty or only whitespace,
\* and otherwise sends exactly one request whose prompt contains
\* product_item_name.
C14_ProductItemValidated ==
    (/\ Done
     /\ fn = "generate_product_classification_text"
     /\ product_items = None
     /\ CredentialResolved
     /\ args.prompt_template = CLASSIFY_PRODUCT_ITEMS_PROMPT)
    => IF OnlyWhitespace(args.text)
       THEN ValidationError(raised) /\ Requests = 0
       ELSE /\ raised = NoException
            /\ Requests = 1
            /\ Occurs(args.text, sent[1].messages[1].content)

\* The entity types rendered by assemble_ner_prompt for the request.
TaxonomyRendered ==
    IF args.entity_types = None THEN ENTITY_TYPES ELSE args.entity_types[1]

\* C15: in every result extract_entities_with_openai returns,
\* entity_types_used is the list of the keys, in order, of the entity types
\* rendered into the prompt: the caller's mapping when one is passed, the empty
\* one included, and ENTITY_TYPES when None is passed.
C15_EntityTypesUsedRendered ==
    (Done /\ fn = "extract_entities_with_openai" /\ raised = NoException)
    => /\ Has("entity_types_used")
       /\ result.entity_types_used = Keys(TaxonomyRendered)

====
